---- MODULE Spec2Model ----
(***************************************************************************)
(* Model of analizador_ll1_slr1_ll1corregido.py: the Grammar object        *)
(* (add_production, FIRST/FOLLOW fixpoints, LR(0) automaton, SLR(1) and    *)
(* LL(1) table builders) and the two table-driven parsers.                 *)
(*                                                                         *)
(* A behaviour loads a list of rules with add_production, then runs the    *)
(* pipeline of main() (build_slr_tables, then build_ll1_table) one or more *)
(* times and parses token lists.  The while loops of the source are        *)
(* stepped one iteration per action; the for loops inside one iteration    *)
(* are folded by recursive operators that follow the source line by line.  *)
(*                                                                         *)
(* Conventions: a Python list is a sequence, a set is a set, the ordered   *)
(* dict `productions` is a sequence of [head, bodies] entries in insertion *)
(* order, a defaultdict(set) is a total function with default {}, and a    *)
(* dict of dicts (action, goto, ll1 tables) is a function whose domain is  *)
(* the set of <<row, column>> pairs present.  body_str is given already    *)
(* split into its whitespace-separated words.                              *)
(***************************************************************************)
EXTENDS Naturals, Sequences, FiniteSets, TLC

VARIABLES
    input,              \* rules still to be passed to add_production
    order,              \* iteration order of Python sets in this process
    productions, terminals, non_terminals, start_symbol,
    first, follow, action_table, goto_table, states, has_slr_conflict,
    pc,                 \* position in main() / in the running handler
    call,               \* which builder is running: "slr" | "ll1" | "none"
    runs,               \* number of completed pipeline runs
    iters,              \* iterations the current while loop has executed
    augmented,          \* local `augmented` of the running builder
    closure_set,        \* local of closure() for the start item
    lr_states, transitions, queue,      \* locals of build_lr0_states
    slr_rets, ll1_rets, \* return values of the builders, one per call
    stack, tokens, idx, verdict         \* locals and result of the parsers

gvars == <<productions, terminals, non_terminals, start_symbol>>
svars == <<first, follow>>
tvars == <<action_table, goto_table, states, has_slr_conflict>>
lvars == <<augmented, closure_set, lr_states, transitions, queue>>
rvars == <<slr_rets, ll1_rets>>
pvars == <<stack, tokens, idx, verdict>>
vars  == <<input, order, gvars, svars, tvars, pc, call, runs, iters, lvars, rvars, pvars>>

-----------------------------------------------------------------------------
(* Bounds of the model *)

MaxProds  == 2      \* rules in a list drawn from Pool
MaxTokens == 2      \* tokens in a parsed list drawn from TokenSyms
MaxRuns   == 2      \* pipeline runs on one grammar
MaxSteps  == 24     \* iterations of a parser run evaluated as a whole

-----------------------------------------------------------------------------
(* Symbols *)

None == "None"
EPS  == "e"
END  == "$"

\* every symbol the model's grammars and token lists use, in a fixed order
SymbolSeq ==
    <<"S", "A", "B", "s", "a", "b", "c", "e", "$",
      "E", "T", "F", "+", "*", "(", ")", "id", "S'">>

Symbol == {SymbolSeq[i] : i \in DOMAIN SymbolSeq}

\* str.isupper(): some cased character, and every cased character upper case
IsUpper(sym) == sym \in {"S", "A", "B", "E", "T", "F", "S'"}

Reverse(s) == [i \in 1..Len(s) |-> s[Len(s) + 1 - i]]

\* s without the repetitions of earlier elements
Dedup(s) ==
    LET keep == {i \in DOMAIN s : \A j \in 1..(i - 1) : s[j] # s[i]}
    IN [n \in 1..Cardinality(keep) |->
          s[CHOOSE i \in keep : Cardinality({j \in keep : j <= i}) = n]]

\* for x in <set of symbols>: one of the two opposite orders per process
SymbolsInOrder(set, ord) ==
    LET s == SelectSeq(SymbolSeq, LAMBDA x : x \in set)
    IN IF ord = "fwd" THEN s ELSE Reverse(s)

-----------------------------------------------------------------------------
(* productions: defaultdict(list), insertion ordered *)

Heads(p) == {p[i].head : i \in DOMAIN p}

InProductions(p, sym) == sym \in Heads(p)

BodiesOf(p, h) ==
    IF InProductions(p, h)
    THEN p[CHOOSE i \in DOMAIN p : p[i].head = h].bodies
    ELSE << >>

\* self.productions[head].append(body)
AppendBody(p, h, body) ==
    IF InProductions(p, h)
    THEN [i \in DOMAIN p |->
            IF p[i].head = h
            THEN [head |-> h, bodies |-> Append(p[i].bodies, body)]
            ELSE p[i]]
    ELSE Append(p, [head |-> h, bodies |-> <<body>>])

\* the symbols add_production puts into terminals / non_terminals for a body
BodyTerminals(body) ==
    {body[i] : i \in {j \in DOMAIN body : ~IsUpper(body[j]) /\ body[j] # EPS}}

BodyNonTerminals(head, body) ==
    {body[i] : i \in {j \in DOMAIN body :
                        (IsUpper(body[j]) \/ body[j] = EPS) /\ body[j] # head}}

\* add_production applied to a grammar record
add_production(g, head, body) ==
    [ productions   |-> AppendBody(g.productions, head, body),
      terminals     |-> g.terminals \cup BodyTerminals(body),
      non_terminals |-> g.non_terminals \cup {head} \cup BodyNonTerminals(head, body),
      start_symbol  |-> IF g.start_symbol = None THEN head ELSE g.start_symbol ]

Self == [ productions |-> productions, terminals |-> terminals,
          non_terminals |-> non_terminals, start_symbol |-> start_symbol ]

\* TLC hands operator arguments over unevaluated; the for loops below evaluate
\* their accumulator at every iteration, as the source updates its sets and
\* tables at every iteration
Evaluated(v) == v = v

-----------------------------------------------------------------------------
(* FIRST and FOLLOW *)

RECURSIVE FosScan(_, _, _, _, _)
FosScan(p, f, symbols, i, result) ==
    IF i > Len(symbols) THEN result \cup {EPS}
    ELSE LET symbol == symbols[i] IN
         IF ~InProductions(p, symbol) THEN result \cup {symbol}
         ELSE LET r2 == result \cup (f[symbol] \ {EPS}) IN
              IF EPS \notin f[symbol] THEN r2
              ELSE FosScan(p, f, symbols, i + 1, r2)

first_of_string(p, f, symbols) ==
    IF symbols = << >> THEN {EPS} ELSE FosScan(p, f, symbols, 1, {})

\* for symbol in body: ... of calculate_first, from position i
RECURSIVE FirstScan(_, _, _, _, _)
FirstScan(p, acc, head, body, i) ==
    IF i > Len(body) THEN acc
    ELSE LET symbol == body[i]
             f      == acc.first
         IN
         IF ~InProductions(p, symbol)
         THEN IF symbol \notin f[head]
              THEN [first |-> [f EXCEPT ![head] = @ \cup {symbol}], changed |-> TRUE]
              ELSE acc
         ELSE LET before == Cardinality(f[head])
                  f1 == [f EXCEPT ![head] = @ \cup (f[symbol] \ {EPS})]
              IN
              IF EPS \notin f1[symbol]
              THEN [first |-> f1, changed |-> acc.changed]
              ELSE LET f2 == IF symbol = body[Len(body)]
                             THEN [f1 EXCEPT ![head] = @ \cup {EPS}]
                             ELSE f1
                   IN FirstScan(p,
                                [first |-> f2,
                                 changed |-> acc.changed \/ Cardinality(f2[head]) > before],
                                head, body, i + 1)

RECURSIVE FirstBodies(_, _, _, _)
FirstBodies(p, acc, k, j) ==
    IF j > Len(p[k].bodies) \/ ~Evaluated(acc) THEN acc
    ELSE FirstBodies(p, FirstScan(p, acc, p[k].head, p[k].bodies[j], 1), k, j + 1)

RECURSIVE FirstHeads(_, _, _)
FirstHeads(p, acc, k) ==
    IF k > Len(p) \/ ~Evaluated(acc) THEN acc
    ELSE FirstHeads(p, FirstBodies(p, acc, k, 1), k + 1)

\* FirstPass with `changed = True` set by every pass
FirstPassAlwaysChanged(p, f) ==
    [FirstHeads(p, [first |-> f, changed |-> FALSE], 1) EXCEPT !.changed = TRUE]

\* one iteration of `while changed:` in calculate_first
FirstPass(p, f) == FirstHeads(p, [first |-> f, changed |-> FALSE], 1)

\* FollowAt without lines 105-108: FOLLOW(head) is not passed on to B
FollowAtNoHeadFollow(p, f, acc, head, body, i) ==
    LET B == body[i] IN
    IF ~InProductions(p, B) THEN acc
    ELSE LET beta    == SubSeq(body, i + 1, Len(body))
             trailer == first_of_string(p, f, beta) \ {EPS}
         IN IF trailer \ acc.follow[B] # {}
            THEN [follow |-> [acc.follow EXCEPT ![B] = @ \cup trailer], changed |-> TRUE]
            ELSE acc

\* FollowAt with line 101 lacking `- {'e'}`
FollowAtKeepEps(p, f, acc, head, body, i) ==
    LET B == body[i] IN
    IF ~InProductions(p, B) THEN acc
    ELSE LET beta    == SubSeq(body, i + 1, Len(body))
             trailer == first_of_string(p, f, beta)
             a1 == IF trailer \ acc.follow[B] # {}
                   THEN [follow |-> [acc.follow EXCEPT ![B] = @ \cup trailer],
                         changed |-> TRUE]
                   ELSE acc
         IN IF EPS \in first_of_string(p, f, beta) \/ beta = << >>
            THEN IF a1.follow[head] \ a1.follow[B] # {}
                 THEN [follow |-> [a1.follow EXCEPT ![B] = @ \cup a1.follow[head]],
                       changed |-> TRUE]
                 ELSE a1
            ELSE a1

\* the body of `for i, B in enumerate(body):` in calculate_follow
FollowAt(p, f, acc, head, body, i) ==
    LET B == body[i] IN
    IF ~InProductions(p, B) THEN acc
    ELSE LET beta    == SubSeq(body, i + 1, Len(body))
             trailer == first_of_string(p, f, beta) \ {EPS}
             a1 == IF trailer \ acc.follow[B] # {}
                   THEN [follow |-> [acc.follow EXCEPT ![B] = @ \cup trailer],
                         changed |-> TRUE]
                   ELSE acc
         IN IF EPS \in first_of_string(p, f, beta) \/ beta = << >>
            THEN IF a1.follow[head] \ a1.follow[B] # {}
                 THEN [follow |-> [a1.follow EXCEPT ![B] = @ \cup a1.follow[head]],
                       changed |-> TRUE]
                 ELSE a1
            ELSE a1

RECURSIVE FollowScan(_, _, _, _, _, _)
FollowScan(p, f, acc, head, body, i) ==
    IF i > Len(body) \/ ~Evaluated(acc) THEN acc
    ELSE FollowScan(p, f, FollowAt(p, f, acc, head, body, i), head, body, i + 1)

RECURSIVE FollowBodies(_, _, _, _, _)
FollowBodies(p, f, acc, k, j) ==
    IF j > Len(p[k].bodies) \/ ~Evaluated(acc) THEN acc
    ELSE FollowBodies(p, f, FollowScan(p, f, acc, p[k].head, p[k].bodies[j], 1), k, j + 1)

RECURSIVE FollowHeads(_, _, _, _)
FollowHeads(p, f, acc, k) ==
    IF k > Len(p) \/ ~Evaluated(acc) THEN acc
    ELSE FollowHeads(p, f, FollowBodies(p, f, acc, k, 1), k + 1)

\* one iteration of `while changed:` in calculate_follow
FollowPass(p, f, fo) == FollowHeads(p, f, [follow |-> fo, changed |-> FALSE], 1)

-----------------------------------------------------------------------------
(* Partial functions (dict) *)

EmptyDict == << >>

Put(f, k, v) == [x \in (DOMAIN f) \cup {k} |-> IF x = k THEN v ELSE f[x]]

-----------------------------------------------------------------------------
(* LR0Item, closure, goto, augmented *)

LR0Item(head, body, dot_pos) == [head |-> head, body |-> body, dot_pos |-> dot_pos]

is_reduce_item(item) == item.dot_pos = Len(item.body)

next_symbol(item) ==
    IF item.dot_pos < Len(item.body) THEN item.body[item.dot_pos + 1] ELSE None

advance(item) == LR0Item(item.head, item.body, item.dot_pos + 1)

\* new_items of one iteration of `while added:` in closure
NewItems(p, cs) ==
    { new_item \in
        UNION { { LR0Item(next_symbol(item), BodiesOf(p, next_symbol(item))[j], 0) :
                    j \in DOMAIN BodiesOf(p, next_symbol(item)) } :
                item \in { it \in cs : next_symbol(it) # None
                                       /\ InProductions(p, next_symbol(it)) } } :
      new_item \notin cs }

RECURSIVE ClosureLoop(_, _)
ClosureLoop(p, cs) ==
    LET new_items == NewItems(p, cs)
    IN IF new_items = {} THEN cs ELSE ClosureLoop(p, cs \cup new_items)

\* closure without its while loop
ClosureNone(p, items) == items

closure(p, items) == ClosureLoop(p, items)

goto(p, items, symbol) ==
    closure(p, { advance(item) : item \in { it \in items : next_symbol(it) = symbol } })

Prime(sym) == sym \o "'"

\* the Grammar that augmented() returns
Augmented(g) ==
    add_production(
        [ productions   |-> g.productions,
          terminals     |-> g.terminals,
          non_terminals |-> g.non_terminals,
          start_symbol  |-> Prime(g.start_symbol) ],
        Prime(g.start_symbol), <<g.start_symbol>>)

\* self.productions after augmented(): productions.copy() is shallow, so a
\* list already stored under the new start symbol is shared and appended to
ProductionsAfterAugmented(g) ==
    IF InProductions(g.productions, Prime(g.start_symbol))
    THEN AppendBody(g.productions, Prime(g.start_symbol), <<g.start_symbol>>)
    ELSE g.productions

-----------------------------------------------------------------------------
(* Iteration order of a set of items *)

ItemsOfBody(h, b) == [d \in 1..(Len(b) + 1) |-> LR0Item(h, b, d - 1)]

RECURSIVE ItemsOfBodies(_, _, _)
ItemsOfBodies(h, bodies, j) ==
    IF j > Len(bodies) THEN << >>
    ELSE ItemsOfBody(h, bodies[j]) \o ItemsOfBodies(h, bodies, j + 1)

RECURSIVE ItemsOfProds(_, _)
ItemsOfProds(p, k) ==
    IF k > Len(p) THEN << >>
    ELSE ItemsOfBodies(p[k].head, p[k].bodies, 1) \o ItemsOfProds(p, k + 1)

\* for item in state: one of the two opposite orders per process
ItemsInOrder(p, state, ord) ==
    LET s == SelectSeq(Dedup(ItemsOfProds(p, 1)), LAMBDA it : it \in state)
    IN IF ord = "fwd" THEN s ELSE Reverse(s)

-----------------------------------------------------------------------------
(* build_lr0_states *)

\* seen[target]: states are appended only when unseen, so it is the position
IndexOf(sts, target) == (CHOOSE i \in DOMAIN sts : sts[i] = target) - 1

InStates(sts, target) == \E i \in DOMAIN sts : sts[i] = target

\* ExpandSymbols without the test `target not in seen` of line 159
RECURSIVE ExpandSymbolsNoSeen(_, _, _, _, _, _)
ExpandSymbolsNoSeen(p, acc, current, cidx, syms, i) ==
    IF i > Len(syms) THEN acc
    ELSE LET symbol == syms[i]
             target == goto(p, current, symbol)
         IN IF target = {} THEN ExpandSymbolsNoSeen(p, acc, current, cidx, syms, i + 1)
            ELSE LET a1 == [acc EXCEPT !.states = Append(@, target),
                                       !.queue  = Append(@, target)]
                     a2 == [a1 EXCEPT !.transitions =
                                Put(@, <<cidx, symbol>>, Len(a1.states) - 1)]
                 IN ExpandSymbolsNoSeen(p, a2, current, cidx, syms, i + 1)

\* for symbol in self.terminals | self.non_terminals: ... for state `current`
RECURSIVE ExpandSymbols(_, _, _, _, _, _)
ExpandSymbols(p, acc, current, cidx, syms, i) ==
    IF i > Len(syms) THEN acc
    ELSE LET symbol == syms[i]
             target == goto(p, current, symbol)
         IN IF target = {} THEN ExpandSymbols(p, acc, current, cidx, syms, i + 1)
            ELSE LET a1 == IF ~InStates(acc.states, target)
                           THEN [acc EXCEPT !.states = Append(@, target),
                                            !.queue  = Append(@, target)]
                           ELSE acc
                     a2 == [a1 EXCEPT !.transitions =
                                Put(@, <<cidx, symbol>>, IndexOf(a1.states, target))]
                 IN ExpandSymbols(p, a2, current, cidx, syms, i + 1)

-----------------------------------------------------------------------------
(* build_slr_tables: the loop over states and items *)

Accept == [kind |-> "accept", target |-> 0, head |-> "", body |-> << >>]
Shift(tidx) == [kind |-> "shift", target |-> tidx, head |-> "", body |-> << >>]
Reduce(head, body) == [kind |-> "reduce", target |-> 0, head |-> head, body |-> body]

\* SetAction with the test of lines 181/192 lacking its `!=` half
SetActionOccupied(acc, sidx, a, act) ==
    [acc EXCEPT !.conflict = @ \/ (<<sidx, a>> \in DOMAIN acc.action),
                !.action = Put(@, <<sidx, a>>, act)]

\* one assignment action[idx][a] = act, after the conflict test of the source
SetAction(acc, sidx, a, act) ==
    [acc EXCEPT !.conflict = @ \/ (<<sidx, a>> \in DOMAIN acc.action
                                    /\ acc.action[<<sidx, a>>] # act),
                !.action = Put(@, <<sidx, a>>, act)]

\* action[idx]['$'] = ('accept',): no conflict test in the source
SetAccept(acc, sidx) == [acc EXCEPT !.action = Put(@, <<sidx, END>>, Accept)]

RECURSIVE ReduceOn(_, _, _, _, _)
ReduceOn(acc, sidx, item, las, i) ==
    IF i > Len(las) \/ ~Evaluated(acc) THEN acc
    ELSE ReduceOn(SetAction(acc, sidx, las[i], Reduce(item.head, item.body)),
                  sidx, item, las, i + 1)

\* the body of `for item in state:`
FillItem(g, fo, sts, aug_start, ord, acc, sidx, state, item) ==
    IF is_reduce_item(item)
    THEN IF item.head = aug_start
         THEN SetAccept(acc, sidx)
         ELSE ReduceOn(acc, sidx, item, SymbolsInOrder(fo[item.head], ord), 1)
    ELSE LET sym    == next_symbol(item)
             target == goto(g.productions, state, sym)
         IN IF InStates(sts, target)
            THEN LET tidx == IndexOf(sts, target)
                 IN IF sym \in g.terminals
                    THEN SetAction(acc, sidx, sym, Shift(tidx))
                    ELSE [acc EXCEPT !.goto = Put(@, <<sidx, sym>>, tidx)]
            ELSE acc

RECURSIVE FillItems(_, _, _, _, _, _, _, _, _, _)
FillItems(g, fo, sts, aug_start, ord, acc, sidx, state, items, i) ==
    IF i > Len(items) \/ ~Evaluated(acc) THEN acc
    ELSE FillItems(g, fo, sts, aug_start, ord,
                   FillItem(g, fo, sts, aug_start, ord, acc, sidx, state, items[i]),
                   sidx, state, items, i + 1)

RECURSIVE FillStates(_, _, _, _, _, _, _)
FillStates(g, fo, sts, aug, ord, acc, k) ==
    IF k > Len(sts) \/ ~Evaluated(acc) THEN acc
    ELSE FillStates(g, fo, sts, aug, ord,
                    FillItems(g, fo, sts, aug.start_symbol, ord, acc, k - 1, sts[k],
                              ItemsInOrder(aug.productions, sts[k], ord), 1),
                    k + 1)

\* lines 171-198: g is self after the augmented() call of line 173
SlrFill(g, fo, sts, aug, ord, conflict_before) ==
    FillStates(g, fo, sts, aug, ord,
               [action |-> EmptyDict, goto |-> EmptyDict, conflict |-> conflict_before], 1)

\* SlrReturn without the test of line 199
SlrReturnLeaky(acc) == [ok |-> TRUE, action |-> acc.action, goto |-> acc.goto]

\* lines 199-207: the tables stored in self and returned; ok = FALSE stands
\* for (None, None)
SlrReturn(acc) ==
    IF acc.conflict
    THEN [ok |-> FALSE, action |-> EmptyDict, goto |-> EmptyDict]
    ELSE [ok |-> TRUE, action |-> acc.action, goto |-> acc.goto]

-----------------------------------------------------------------------------
(* build_ll1_table: the loop over productions *)

\* Ll1Assign without the tests of lines 218/223
RECURSIVE Ll1AssignOverwrite(_, _, _, _, _)
Ll1AssignOverwrite(acc, head, body, ts, i) ==
    IF i > Len(ts) \/ ~Evaluated(acc) THEN acc
    ELSE Ll1AssignOverwrite([acc EXCEPT !.table = Put(@, <<head, ts[i]>>, body)],
                            head, body, ts, i + 1)

RECURSIVE Ll1Assign(_, _, _, _, _)
Ll1Assign(acc, head, body, ts, i) ==
    IF i > Len(ts) \/ acc.failed THEN acc
    ELSE IF <<head, ts[i]>> \in DOMAIN acc.table
         THEN [acc EXCEPT !.failed = TRUE,
                          !.hit = [head |-> head, terminal |-> ts[i], body |-> body,
                                   held |-> acc.table[<<head, ts[i]>>]]]
         ELSE Ll1Assign([acc EXCEPT !.table = Put(@, <<head, ts[i]>>, body)],
                        head, body, ts, i + 1)

\* the body of `for body in prods:`
Ll1Body(p, f, fo, ord, acc, head, body) ==
    LET fs == first_of_string(p, f, body)
        a1 == Ll1Assign(acc, head, body, SymbolsInOrder(fs \ {EPS}, ord), 1)
    IN IF a1.failed \/ EPS \notin fs THEN a1
       ELSE Ll1Assign(a1, head, body, SymbolsInOrder(fo[head], ord), 1)

RECURSIVE Ll1Bodies(_, _, _, _, _, _, _)
Ll1Bodies(p, f, fo, ord, acc, k, j) ==
    IF j > Len(p[k].bodies) \/ acc.failed THEN acc
    ELSE Ll1Bodies(p, f, fo, ord,
                   Ll1Body(p, f, fo, ord, acc, p[k].head, p[k].bodies[j]), k, j + 1)

RECURSIVE Ll1Heads(_, _, _, _, _, _)
Ll1Heads(p, f, fo, ord, acc, k) ==
    IF k > Len(p) \/ acc.failed THEN acc
    ELSE Ll1Heads(p, f, fo, ord, Ll1Bodies(p, f, fo, ord, acc, k, 1), k + 1)

\* lines 213-226; `hit` records the assignment at which None was returned
Ll1Fill(p, f, fo, ord) ==
    Ll1Heads(p, f, fo, ord,
             [table |-> EmptyDict, failed |-> FALSE,
              hit |-> [head |-> None, terminal |-> None, body |-> << >>, held |-> << >>]],
             1)

\* the value build_ll1_table returns; ok = FALSE stands for None
Ll1Return(acc) ==
    IF acc.failed THEN [ok |-> FALSE, table |-> EmptyDict]
    ELSE [ok |-> TRUE, table |-> acc.table]

-----------------------------------------------------------------------------
(* Inputs *)

Rule(h, b) == <<h, b>>

\* the grammars of the specification's examples
Arithmetic ==
    << Rule("E", <<"E", "+", "T">>), Rule("E", <<"T">>),
       Rule("T", <<"T", "*", "F">>), Rule("T", <<"F">>),
       Rule("F", <<"(", "E", ")">>), Rule("F", <<"id">>) >>

Alternation == << Rule("S", <<"a">>), Rule("S", <<"b">>) >>

RightRecursive == << Rule("S", <<"a", "S">>), Rule("S", <<"a">>) >>

EpsilonExample ==
    << Rule("S", <<"A", "b">>), Rule("A", <<"a">>), Rule("A", <<"e">>) >>

\* further rule lists of three rules
Chain == << Rule("S", <<"A">>), Rule("A", <<"B", "S">>), Rule("B", <<"b">>) >>

ReduceReduce == << Rule("S", <<"A">>), Rule("S", <<"a">>), Rule("A", <<"a">>) >>

\* a body whose last symbol also stands before a symbol that is not nullable
RepeatedLast ==
    << Rule("S", <<"A", "B", "A">>), Rule("A", <<"e">>), Rule("B", <<"b">>) >>

\* a head that bears the name augmented() gives its start symbol
PrimedHead == << Rule("S", <<"a">>), Rule("S'", <<"b">>) >>

\* the end marker as a symbol of a body
EndInBody == << Rule("S", <<"a", "$">>) >>

Named ==
    {Arithmetic, Alternation, RightRecursive, EpsilonExample, Chain, ReduceReduce,
     RepeatedLast, PrimedHead, EndInBody}

\* the rules the bounded rule lists are made of
Pool ==
    { Rule("S", <<"a", "S">>), Rule("S", <<"a">>), Rule("S", <<"A", "A">>),
      Rule("S", <<"A", "b">>), Rule("S", <<"A">>), Rule("S", <<"S">>),
      Rule("S", << >>),
      Rule("A", <<"a">>), Rule("A", <<"e">>),
      Rule("s", <<"a", "s">>), Rule("s", <<"a">>) }

RuleLists == UNION { [1..n -> Pool] : n \in 1..MaxProds }

Inputs == Named \cup RuleLists

\* the grammar after add_production has been called for the first n rules
RECURSIVE LoadRules(_, _)
LoadRules(rules, n) ==
    IF n = 0 THEN [ productions |-> << >>, terminals |-> {}, non_terminals |-> {},
                    start_symbol |-> None ]
    ELSE add_production(LoadRules(rules, n - 1), rules[n][1], rules[n][2])

Loaded(rules) == LoadRules(rules, Len(rules))

TokenSyms == {"a", "b"}

TokenLists ==
    UNION { [1..n -> TokenSyms] : n \in 0..MaxTokens }
    \cup { <<"id", "+", "id", "*", "id">>, <<"id", "+">>, <<"c">> }

-----------------------------------------------------------------------------
(* Initial state: a fresh Grammar (__init__) and the rules to load *)

NoGrammar == [ productions |-> << >>, terminals |-> {}, non_terminals |-> {},
               start_symbol |-> None ]

Init ==
    /\ input \in Inputs
    /\ order \in {"fwd", "rev"}
    /\ productions = << >>
    /\ terminals = {}
    /\ non_terminals = {}
    /\ start_symbol = None
    /\ first = [x \in Symbol |-> {}]
    /\ follow = [x \in Symbol |-> {}]
    /\ action_table = EmptyDict
    /\ goto_table = EmptyDict
    /\ states = << >>
    /\ has_slr_conflict = FALSE
    /\ pc = "load"
    /\ call = "none"
    /\ runs = 0
    /\ iters = 0
    /\ augmented = NoGrammar
    /\ closure_set = {}
    /\ lr_states = << >>
    /\ transitions = EmptyDict
    /\ queue = << >>
    /\ slr_rets = << >>
    /\ ll1_rets = << >>
    /\ stack = << >>
    /\ tokens = << >>
    /\ idx = 0
    /\ verdict = "none"

-----------------------------------------------------------------------------
(* Loading: main() calls add_production once per alternative *)

AddProduction ==
    /\ pc = "load"
    /\ input # << >>
    /\ LET g == add_production(Self, Head(input)[1], Head(input)[2]) IN
       /\ productions' = g.productions
       /\ terminals' = g.terminals
       /\ non_terminals' = g.non_terminals
       /\ start_symbol' = g.start_symbol
    /\ input' = Tail(input)
    /\ UNCHANGED <<order, svars, tvars, pc, call, runs, lvars, rvars, pvars>>
    /\ UNCHANGED iters

-----------------------------------------------------------------------------
(* build_slr_tables and build_ll1_table *)

\* main() line 292, or a further run of the pipeline on the same grammar
CallBuildSlr ==
    /\ \/ pc = "load" /\ input = << >>
       \/ pc = "idle" /\ runs < MaxRuns
    /\ pc' = "first"
    /\ call' = "slr"
    /\ UNCHANGED <<input, order, gvars, svars, tvars, runs, lvars, rvars, pvars>>
    /\ iters' = 0

\* main() line 293
CallBuildLl1 ==
    /\ pc = "slr_returned"
    /\ pc' = "first"
    /\ call' = "ll1"
    /\ UNCHANGED <<input, order, gvars, svars, tvars, runs, lvars, rvars, pvars>>
    /\ iters' = 0

\* calculate_first: one iteration of the while loop; the loop is left after
\* an iteration that set no `changed`
CalculateFirstStep ==
    /\ pc = "first"
    /\ LET r == FirstPass(productions, first) IN
       /\ first' = r.first
       /\ pc' = IF r.changed THEN "first" ELSE "follow_seed"
    /\ UNCHANGED <<input, order, gvars, follow, tvars, call, runs, lvars, rvars, pvars>>
    /\ iters' = iters + 1

\* calculate_follow line 92
CalculateFollowSeed ==
    /\ pc = "follow_seed"
    /\ follow' = [follow EXCEPT ![start_symbol] = @ \cup {END}]
    /\ pc' = "follow"
    /\ UNCHANGED <<input, order, gvars, first, tvars, call, runs, lvars, rvars, pvars>>
    /\ iters' = 0

\* calculate_follow: one iteration of the while loop
CalculateFollowStep ==
    /\ pc = "follow"
    /\ LET r == FollowPass(productions, first, follow) IN
       /\ follow' = r.follow
       /\ pc' = IF r.changed THEN "follow"
                ELSE IF call = "slr" THEN "lr0_start" ELSE "ll1_fill"
    /\ UNCHANGED <<input, order, gvars, first, tvars, call, runs, lvars, rvars, pvars>>
    /\ iters' = iters + 1

\* build_lr0_states lines 144-145, entering augmented.closure([start])
BuildLr0Start ==
    /\ pc = "lr0_start"
    /\ augmented' = Augmented(Self)
    /\ productions' = ProductionsAfterAugmented(Self)
    /\ closure_set' = { LR0Item(Prime(start_symbol), <<start_symbol>>, 0) }
    /\ pc' = "closure"
    /\ UNCHANGED <<input, order, terminals, non_terminals, start_symbol, svars, tvars,
                   call, runs, lr_states, transitions, queue, rvars, pvars>>
    /\ iters' = 0

\* closure: one iteration of `while added:`; on leaving the loop, lines 147-150
ClosureStep ==
    /\ pc = "closure"
    /\ LET new_items == NewItems(augmented.productions, closure_set) IN
       IF new_items # {}
       THEN /\ closure_set' = closure_set \cup new_items
            /\ iters' = iters + 1
            /\ UNCHANGED <<pc, lr_states, transitions, queue>>
       ELSE /\ lr_states' = <<closure_set>>
            /\ transitions' = EmptyDict
            /\ queue' = <<closure_set>>
            /\ pc' = "lr0"
            /\ iters' = 0
            /\ UNCHANGED closure_set
    /\ UNCHANGED <<input, order, gvars, svars, tvars, call, runs, augmented, rvars, pvars>>

\* build_lr0_states: one iteration of `while queue:`
BuildLr0Step ==
    /\ pc = "lr0"
    /\ queue # << >>
    /\ LET current == Head(queue)
           r == ExpandSymbols(productions,
                              [states |-> lr_states, transitions |-> transitions,
                               queue |-> Tail(queue)],
                              current, IndexOf(lr_states, current),
                              SymbolsInOrder(terminals \cup non_terminals, order), 1)
       IN /\ lr_states' = r.states
          /\ transitions' = r.transitions
          /\ queue' = r.queue
    /\ UNCHANGED <<input, order, gvars, svars, tvars, pc, call, runs, augmented,
                   closure_set, rvars, pvars>>
    /\ iters' = iters + 1

\* build_lr0_states lines 164-165
BuildLr0Return ==
    /\ pc = "lr0"
    /\ queue = << >>
    /\ states' = lr_states
    /\ pc' = "slr_fill"
    /\ UNCHANGED <<input, order, gvars, svars, action_table, goto_table,
                   has_slr_conflict, call, runs, lvars, rvars, pvars>>
    /\ UNCHANGED iters

\* build_slr_tables lines 171-207
BuildSlrFill ==
    /\ pc = "slr_fill"
    /\ LET aug == Augmented(Self)
           g   == [Self EXCEPT !.productions = ProductionsAfterAugmented(Self)]
           r   == SlrFill(g, follow, states, aug, order, has_slr_conflict)
       IN /\ augmented' = aug
          /\ productions' = g.productions
          /\ has_slr_conflict' = r.conflict
          /\ action_table' = SlrReturn(r).action
          /\ goto_table' = SlrReturn(r).goto
          /\ slr_rets' = Append(slr_rets, SlrReturn(r))
    /\ pc' = "slr_returned"
    /\ UNCHANGED <<input, order, terminals, non_terminals, start_symbol, svars, states,
                   call, runs, closure_set, lr_states, transitions, queue, ll1_rets, pvars>>
    /\ UNCHANGED iters

\* build_ll1_table lines 213-226
BuildLl1Fill ==
    /\ pc = "ll1_fill"
    /\ LET r == Ll1Fill(productions, first, follow, order) IN
       ll1_rets' = Append(ll1_rets, Ll1Return(r))
    /\ pc' = "idle"
    /\ call' = "none"
    /\ runs' = runs + 1
    /\ UNCHANGED <<input, order, gvars, svars, tvars, lvars, slr_rets, pvars>>
    /\ UNCHANGED iters

-----------------------------------------------------------------------------
(* slr_parse *)

Last(s) == s[Len(s)]

\* main() line 348; main() offers the SLR parser when action_table is not empty
CallSlrParse ==
    /\ pc = "idle"
    /\ action_table # EmptyDict
    /\ \E t \in TokenLists :
         tokens' = t \o <<END>>
    /\ stack' = <<0>>
    /\ idx' = 0
    /\ verdict' = "none"
    /\ pc' = "slr_parse"
    /\ call' = "slr_parse"
    /\ UNCHANGED <<input, order, gvars, svars, tvars, runs, lvars, rvars>>
    /\ UNCHANGED iters

\* the result of one iteration of `while True:` in slr_parse
SlrParseIteration(at, gt, stk, toks, i) ==
    LET state == Last(stk) IN
    IF i >= Len(toks) THEN [stack |-> stk, idx |-> i, verdict |-> "IndexError"]
    ELSE LET current == toks[i + 1] IN
    IF <<state, current>> \notin DOMAIN at
    THEN [stack |-> stk, idx |-> i, verdict |-> "false"]
    ELSE LET action == at[<<state, current>>] IN
    IF action.kind = "shift"
    THEN [stack |-> Append(stk, action.target), idx |-> i + 1, verdict |-> "none"]
    ELSE IF action.kind = "reduce"
    THEN IF Len(stk) <= Len(action.body)
         THEN [stack |-> << >>, idx |-> i, verdict |-> "IndexError"]
         ELSE LET popped == SubSeq(stk, 1, Len(stk) - Len(action.body))
                  top    == Last(popped)
              IN IF <<top, action.head>> \notin DOMAIN gt
                 THEN [stack |-> popped, idx |-> i, verdict |-> "KeyError"]
                 ELSE [stack |-> Append(popped, gt[<<top, action.head>>]),
                       idx |-> i, verdict |-> "none"]
    ELSE IF action.kind = "accept"
    THEN [stack |-> stk, idx |-> i, verdict |-> "true"]
    ELSE [stack |-> stk, idx |-> i, verdict |-> "false"]

\* slr_parse from a given iteration on, to its return or to MaxSteps iterations
RECURSIVE SlrParseLoop(_, _, _, _, _, _)
SlrParseLoop(at, gt, stk, toks, i, n) ==
    LET r == SlrParseIteration(at, gt, stk, toks, i)
    IN IF r.verdict # "none" \/ n = 0 THEN r.verdict
       ELSE SlrParseLoop(at, gt, r.stack, toks, r.idx, n - 1)

\* the value slr_parse(tokens, grammar) returns, or the exception it raises
slr_parse(toks, at, gt) == SlrParseLoop(at, gt, <<0>>, toks \o <<END>>, 0, MaxSteps)

SlrParseStep ==
    /\ pc = "slr_parse"
    /\ LET r == SlrParseIteration(action_table, goto_table, stack, tokens, idx) IN
       /\ stack' = r.stack
       /\ idx' = r.idx
       /\ verdict' = r.verdict
       /\ pc' = IF r.verdict = "none" THEN "slr_parse" ELSE "parsed"
    /\ UNCHANGED <<input, order, gvars, svars, tvars, call, runs, lvars, rvars, tokens>>
    /\ UNCHANGED iters

-----------------------------------------------------------------------------
(* parse_ll1 *)

\* main() line 346; main() offers the LL(1) parser when the table is not None
CallParseLl1 ==
    /\ pc = "idle"
    /\ ll1_rets # << >>
    /\ Last(ll1_rets).ok
    /\ \E t \in TokenLists :
         tokens' = t \o <<END>>
    /\ stack' = <<END, start_symbol>>
    /\ idx' = 0
    /\ verdict' = "none"
    /\ pc' = "ll1_parse"
    /\ call' = "ll1_parse"
    /\ UNCHANGED <<input, order, gvars, svars, tvars, runs, lvars, rvars>>
    /\ UNCHANGED iters

\* the result of one iteration of `while stack:` in parse_ll1, or of line 273
ParseLl1Iteration(p, table, stk, toks, i) ==
    IF stk = << >> THEN [stack |-> stk, idx |-> i, verdict |-> "false"]
    ELSE LET top    == Last(stk)
             popped == SubSeq(stk, 1, Len(stk) - 1)
         IN
    IF i >= Len(toks) THEN [stack |-> popped, idx |-> i, verdict |-> "IndexError"]
    ELSE LET current == toks[i + 1] IN
    IF top = current
    THEN IF top = END
         THEN [stack |-> popped, idx |-> i, verdict |-> "true"]
         ELSE [stack |-> popped, idx |-> i + 1, verdict |-> "none"]
    ELSE IF ~InProductions(p, top)
    THEN [stack |-> popped, idx |-> i, verdict |-> "false"]
    ELSE IF <<top, current>> \in DOMAIN table
    THEN LET production == table[<<top, current>>] IN
         [stack |-> IF production # <<EPS>> THEN popped \o Reverse(production)
                    ELSE popped,
          idx |-> i, verdict |-> "none"]
    ELSE [stack |-> popped, idx |-> i, verdict |-> "false"]

\* parse_ll1 from a given iteration on, to its return or to MaxSteps iterations
RECURSIVE ParseLl1Loop(_, _, _, _, _, _)
ParseLl1Loop(p, table, stk, toks, i, n) ==
    LET r == ParseLl1Iteration(p, table, stk, toks, i)
    IN IF r.verdict # "none" \/ n = 0 THEN r.verdict
       ELSE ParseLl1Loop(p, table, r.stack, toks, r.idx, n - 1)

\* the value parse_ll1(tokens, grammar, table) returns
parse_ll1(toks, g, table) ==
    ParseLl1Loop(g.productions, table, <<END, g.start_symbol>>, toks \o <<END>>, 0, MaxSteps)

ParseLl1Step ==
    /\ pc = "ll1_parse"
    /\ LET r == ParseLl1Iteration(productions, Last(ll1_rets).table, stack, tokens, idx) IN
       /\ stack' = r.stack
       /\ idx' = r.idx
       /\ verdict' = r.verdict
       /\ pc' = IF r.verdict = "none" THEN "ll1_parse" ELSE "parsed"
    /\ UNCHANGED <<input, order, gvars, svars, tvars, call, runs, lvars, rvars, tokens>>
    /\ UNCHANGED iters

\* main() line 349 and back to the prompt of line 341: the parser's locals
\* are gone
PrintVerdict ==
    /\ pc = "parsed"
    /\ pc' = "idle"
    /\ call' = "none"
    /\ stack' = << >>
    /\ tokens' = << >>
    /\ idx' = 0
    /\ verdict' = "none"
    /\ UNCHANGED <<input, order, gvars, svars, tvars, runs, lvars, rvars>>
    /\ UNCHANGED iters

-----------------------------------------------------------------------------
(* Specification *)

Next ==
    \/ AddProduction
    \/ CallBuildSlr
    \/ CallBuildLl1
    \/ CalculateFirstStep
    \/ CalculateFollowSeed
    \/ CalculateFollowStep
    \/ BuildLr0Start
    \/ ClosureStep
    \/ BuildLr0Step
    \/ BuildLr0Return
    \/ BuildSlrFill
    \/ BuildLl1Fill
    \/ CallSlrParse
    \/ SlrParseStep
    \/ CallParseLl1
    \/ ParseLl1Step
    \/ PrintVerdict

Spec == Init /\ [][Next]_vars

-----------------------------------------------------------------------------
(* Properties *)

\* the grammar of the loaded rules is the one `rules` gives
IsGrammar(rules) == input = << >> /\ Self = Loaded(rules)

\* build_ll1_table's traversal on the current grammar and sets
Ll1Now == Ll1Fill(productions, first, follow, order)

\* C1: a second call of build_slr_tables and of build_ll1_table on the same,
\* unmodified grammar returns tables equal to those of the first call
C1_SecondCallReturnsSameTables ==
    /\ \A i \in DOMAIN slr_rets : slr_rets[i] = slr_rets[1]
    /\ \A i \in DOMAIN ll1_rets : ll1_rets[i] = ll1_rets[1]

\* C2: once calculate_first has returned, no FIRST set holds a symbol of
\* non_terminals: every member is in terminals or is the epsilon marker
C2_FirstHoldsOnlyTerminals ==
    pc \notin {"load", "first"} =>
        \A x \in Symbol : /\ first[x] \cap non_terminals = {}
                          /\ first[x] \subseteq terminals \cup {EPS}

\* C3: build_ll1_table returns None if and only if its traversal comes to
\* assign a slot that holds a body a different body; assigning the body the
\* slot already holds does not abort
C3_NoneIffDifferentBody ==
    pc = "idle" =>
        (~Last(ll1_rets).ok <=> (Ll1Now.failed /\ Ll1Now.hit.held # Ll1Now.hit.body))

\* C4 as stated: for S -> a S | a build_slr_tables reports a conflict,
\* returns (None, None) and leaves action_table and goto_table empty
C4_RightRecursiveSlrFails ==
    IsGrammar(RightRecursive) /\ pc = "slr_returned" =>
        /\ has_slr_conflict
        /\ ~Last(slr_rets).ok
        /\ action_table = EmptyDict
        /\ goto_table = EmptyDict

\* C4 amended: for S -> a S | a build_slr_tables reports no conflict and
\* returns and stores non-empty tables; the state reached on a holds shift
\* on a and reduce S -> a on $ in different cells
C4_RightRecursiveSlrSucceeds ==
    IsGrammar(RightRecursive) /\ pc = "slr_returned" =>
        /\ ~has_slr_conflict
        /\ Last(slr_rets).ok
        /\ action_table = Last(slr_rets).action
        /\ goto_table = Last(slr_rets).goto
        /\ goto_table # EmptyDict
        /\ \E i \in 0..(Len(states) - 1) :
              /\ <<i, "a">> \in DOMAIN action_table
              /\ action_table[<<i, "a">>].kind = "shift"
              /\ <<i, END>> \in DOMAIN action_table
              /\ action_table[<<i, END>>] = Reduce("S", <<"a">>)

C4_Witness ==
    IsGrammar(RightRecursive) /\ pc = "slr_returned" /\ Len(slr_rets) = 1

\* C5: with the tables of a successful build_slr_tables, slr_parse ends only
\* by returning true or false: no pop of an empty stack, no undefined goto
C5_SlrParseOnlyAcceptsOrRejects ==
    call = "slr_parse" /\ Last(slr_rets).ok => verdict \in {"none", "true", "false"}

\* C6: for the arithmetic grammar build_slr_tables succeeds without a
\* conflict, slr_parse accepts id + id * id and rejects id +
C6_Arithmetic ==
    IsGrammar(Arithmetic) =>
        /\ pc = "slr_returned" => Last(slr_rets).ok /\ ~has_slr_conflict
        /\ pc = "parsed" /\ call = "slr_parse"
              /\ tokens = <<"id", "+", "id", "*", "id", END>> => verdict = "true"
        /\ pc = "parsed" /\ call = "slr_parse"
              /\ tokens = <<"id", "+", END>> => verdict = "false"

C6_Witness ==
    /\ IsGrammar(Arithmetic)
    /\ pc = "parsed"
    /\ call = "slr_parse"
    /\ tokens = <<"id", "+", "id", "*", "id", END>>
    /\ verdict = "true"

\* C7: once build_slr_tables has set has_slr_conflict, that call and every
\* later call return (None, None) and the stored tables are empty
C7_ConflictNeverLeaks ==
    /\ has_slr_conflict =>
          /\ action_table = EmptyDict
          /\ goto_table = EmptyDict
          /\ slr_rets # << >>
          /\ ~Last(slr_rets).ok
    /\ \A i \in DOMAIN slr_rets :
          ~slr_rets[i].ok =>
              /\ slr_rets[i].action = EmptyDict
              /\ slr_rets[i].goto = EmptyDict
              /\ \A j \in DOMAIN slr_rets : j >= i => ~slr_rets[j].ok

C7_Witness == has_slr_conflict /\ Len(slr_rets) = 2 /\ pc = "slr_returned"

\* C8: no FOLLOW set ever holds the epsilon marker, during and after
\* calculate_follow
C8_FollowHasNoEpsilon == \A x \in Symbol : EPS \notin follow[x]

C8_Witness ==
    /\ pc = "follow"
    /\ \E x \in Symbol : EPS \in first[x] /\ follow[x] \cap terminals # {}

\* C9: for S -> a S | a build_ll1_table meets a collision on terminal a in
\* the row of S and returns None
C9_RightRecursiveLl1Fails ==
    IsGrammar(RightRecursive) /\ pc = "idle" =>
        /\ ~Last(ll1_rets).ok
        /\ Ll1Now.failed
        /\ Ll1Now.hit.head = "S"
        /\ Ll1Now.hit.terminal = "a"

C9_Witness == IsGrammar(RightRecursive) /\ pc = "idle" /\ Len(ll1_rets) = 1

\* the number of elements of all the sets of a FIRST or FOLLOW table
RECURSIVE SumCard(_, _)
SumCard(f, k) ==
    IF k = 0 THEN 0 ELSE Cardinality(f[SymbolSeq[k]]) + SumCard(f, k - 1)

Size(f) == SumCard(f, Len(SymbolSeq))

ItemsOf(p) == {ItemsOfProds(p, 1)[i] : i \in DOMAIN ItemsOfProds(p, 1)}

\* each loop has executed no more iterations than its sets have taken up
\* elements, and these sets are drawn from the symbols and items of the grammar
LoopVariant ==
    /\ pc = "first" => iters <= Size(first)
    /\ pc = "follow" => iters <= Size(follow)
    /\ pc = "closure" =>
          /\ iters < Cardinality(closure_set)
          /\ closure_set \subseteq ItemsOf(augmented.productions)
    /\ pc = "lr0" =>
          /\ iters + Len(queue) = Len(lr_states)
          /\ \A i, j \in DOMAIN lr_states : lr_states[i] = lr_states[j] => i = j
          /\ \A i \in DOMAIN lr_states : lr_states[i] \subseteq ItemsOf(augmented.productions)
    /\ \A x \in Symbol : first[x] \subseteq Symbol /\ follow[x] \subseteq Symbol

\* C10: the loops of calculate_first, calculate_follow, closure and
\* build_lr0_states terminate (every iteration but the last enlarges a set
\* drawn from a finite universe), and no FIRST or FOLLOW set ever loses an
\* element from one step to the next
C10_LoopsTerminateAndSetsGrow ==
    /\ [](LoopVariant)
    /\ [][\A x \in Symbol : first[x] \subseteq first'[x]
                            /\ follow[x] \subseteq follow'[x]]_vars

C10_Witness ==
    /\ pc = "slr_fill"
    /\ Len(lr_states) >= 4
    /\ \E x \in Symbol : Cardinality(first[x]) >= 2
    /\ \E x \in Symbol : Cardinality(follow[x]) >= 2

\* C11: when calculate_first returns, one more full pass over all (head,
\* body) pairs changes no FIRST set
C11_FirstIsFixpoint ==
    pc = "follow_seed" => FirstPass(productions, first).first = first

\* x has productions and its FIRST set holds the epsilon marker
Nullable(x) == InProductions(productions, x) /\ EPS \in first[x]

\* some body of h lets the epsilon marker into FIRST(h): after symbols that
\* are all nullable the scan meets the marker itself, or the last symbol of
\* the body, nullable as well
EpsilonSource(h) ==
    \E j \in DOMAIN BodiesOf(productions, h) :
        LET body == BodiesOf(productions, h)[j] IN
        \E n \in DOMAIN body :
            /\ \A i \in 1..(n - 1) : Nullable(body[i])
            /\ \/ body[n] = EPS /\ ~InProductions(productions, EPS)
               \/ n = Len(body) /\ Nullable(body[n])

\* C12: FIRST(head) holds the epsilon marker only through a body whose scan
\* reached its end with every symbol nullable; a body with a symbol that is
\* not nullable contributes no epsilon
C12_EpsilonOnlyThroughNullableBody ==
    \A h \in Symbol : EPS \in first[h] => EpsilonSource(h)

\* the item build_lr0_states starts from (line 145)
StartItem == LR0Item(Prime(start_symbol), <<start_symbol>>, 0)

\* the symbols in the order the loop of line 155 visits them
LoopSymbols == SymbolsInOrder(terminals \cup non_terminals, order)

\* the states with a transition to state t
Sources(t) ==
    {k[1] : k \in {x \in DOMAIN transitions : transitions[x] = t}}

\* the state whose expansion met state t first, and the place of the symbol
\* it met it on
Discoverer(t) == CHOOSE i \in Sources(t) : \A j \in Sources(t) : i <= j

DiscoveredAt(t) ==
    CHOOSE n \in DOMAIN LoopSymbols :
        /\ <<Discoverer(t), LoopSymbols[n]>> \in DOMAIN transitions
        /\ transitions[<<Discoverer(t), LoopSymbols[n]>>] = t
        /\ \A m \in 1..(n - 1) :
              <<Discoverer(t), LoopSymbols[m]>> \in DOMAIN transitions
                  => transitions[<<Discoverer(t), LoopSymbols[m]>>] # t

Lr0WellFormed ==
    /\ lr_states[1] = closure(augmented.productions, {StartItem})
    /\ \A i, j \in DOMAIN lr_states : lr_states[i] = lr_states[j] => i = j
    /\ \A k \in DOMAIN transitions :
          /\ k[1] \in 0..(Len(lr_states) - 1)
          /\ transitions[k] \in 0..(Len(lr_states) - 1)
          /\ lr_states[transitions[k] + 1] = goto(productions, lr_states[k[1] + 1], k[2])
    /\ \A t \in 1..(Len(lr_states) - 1) : Sources(t) # {} /\ Discoverer(t) < t
    /\ \A t, u \in 1..(Len(lr_states) - 1) :
          t < u => \/ Discoverer(t) < Discoverer(u)
                   \/ /\ Discoverer(t) = Discoverer(u)
                      /\ DiscoveredAt(t) < DiscoveredAt(u)

\* C13: in and after build_lr0_states state 0 is the closure of the augmented
\* start item, no item set has two indices, indices follow the order of first
\* discovery of the FIFO exploration and are never reassigned, and every
\* transition leads to a valid index whose state is the goto of its source
C13_Lr0StatesWellFormed ==
    /\ [](pc \in {"lr0", "slr_fill"} => Lr0WellFormed)
    /\ [](pc = "slr_fill" => states = lr_states)
    /\ [][pc = "lr0" =>
            /\ Len(lr_states') >= Len(lr_states)
            /\ SubSeq(lr_states', 1, Len(lr_states)) = lr_states
            /\ \A k \in DOMAIN transitions :
                  k \in DOMAIN transitions' /\ transitions'[k] = transitions[k]]_vars

C13_Witness ==
    /\ pc = "slr_fill"
    /\ Len(states) >= 4
    /\ \E k \in DOMAIN transitions : transitions[k] <= k[1]

\* C14: every state build_lr0_states has stored holds, for each of its items
\* whose next symbol has productions, the items of these productions at dot 0
C14_StatesClosureComplete ==
    /\ \A i \in DOMAIN states : NewItems(productions, states[i]) = {}
    /\ pc = "lr0" => \A i \in DOMAIN lr_states : NewItems(productions, lr_states[i]) = {}

C14_Witness ==
    /\ pc = "slr_fill"
    /\ \E i \in DOMAIN states : \E item \in states[i] :
          /\ item.dot_pos > 0
          /\ InProductions(productions, next_symbol(item))
          /\ \E it \in states[i] : it.dot_pos = 0 /\ it.head = next_symbol(item)

\* C15: the start symbol of the grammar augmented() returns is no production
\* head of the grammar it is called on, and in the returned grammar it has one
\* production only, with the original start symbol as its body
C15_AugmentedStartIsFresh ==
    pc = "lr0_start" =>
        LET aug == Augmented(Self) IN
        /\ aug.start_symbol \notin Heads(productions)
        /\ BodiesOf(aug.productions, aug.start_symbol) = << <<start_symbol>> >>

\* the symbols of the bodies of p
BodySymbols(p) ==
    UNION { UNION { {p[k].bodies[j][i] : i \in DOMAIN p[k].bodies[j]} :
                    j \in DOMAIN p[k].bodies } : k \in DOMAIN p }

\* C16: after any sequence of add_production calls terminals and
\* non_terminals are disjoint, every head is in non_terminals and not in
\* terminals, and every body symbol but the epsilon marker is in one of them
C16_SymbolsInOneClass ==
    /\ terminals \cap non_terminals = {}
    /\ Heads(productions) \subseteq non_terminals \ terminals
    /\ BodySymbols(productions) \ {EPS} \subseteq terminals \cup non_terminals

\* C19: augmented(), build_lr0_states and build_slr_tables leave productions,
\* terminals, non_terminals and start_symbol of the grammar as they were
C19_BuildersLeaveGrammarUnchanged ==
    [][pc # "load" => UNCHANGED <<productions, terminals, non_terminals, start_symbol>>]_vars

\* the token lists made of terminals of the grammar
TerminalLists == {t \in TokenLists : \A i \in DOMAIN t : t[i] \in terminals}

\* C17: for a grammar both builders succeed on, slr_parse and parse_ll1 return
\* the same verdict on every list of terminals
C17_ParsersAgree ==
    pc = "idle" /\ Last(slr_rets).ok /\ Last(ll1_rets).ok =>
        \A t \in TerminalLists :
            slr_parse(t, action_table, goto_table) = parse_ll1(t, Self, Last(ll1_rets).table)

\* the assignments to cells of the action table that the items of the states
\* call for, whatever the order of the items: <<state, symbol, action>>
Assignments ==
    UNION { UNION {
        IF is_reduce_item(item)
        THEN IF item.head = augmented.start_symbol
             THEN { <<k - 1, END, Accept>> }
             ELSE { <<k - 1, a, Reduce(item.head, item.body)>> : a \in follow[item.head] }
        ELSE LET sym    == next_symbol(item)
                 target == goto(productions, states[k], sym)
             IN IF InStates(states, target) /\ sym \in terminals
                THEN { <<k - 1, sym, Shift(IndexOf(states, target))>> }
                ELSE {}
        : item \in states[k] } : k \in DOMAIN states }

\* some cell is assigned two different actions
Clash ==
    \E x, y \in Assignments : x[1] = y[1] /\ x[2] = y[2] /\ x[3] # y[3]

\* C18: build_slr_tables returns tables only if no cell of the action table
\* was assigned two different actions, Accept included, and its verdict is
\* the same for either order of visiting the items of a state
C18_TablesOnlyWithoutClash ==
    pc = "slr_returned" =>
        /\ Last(slr_rets).ok => ~Clash
        /\ Len(slr_rets) = 1 =>
              SlrFill(Self, follow, states, augmented, "fwd", FALSE).conflict
                  = SlrFill(Self, follow, states, augmented, "rev", FALSE).conflict

\* C20: in slr_parse and parse_ll1 the cursor stays within the token list,
\* whose last element is the appended end marker, and true is returned only
\* with the cursor at the end marker
C20_CursorWithinTokens ==
    pc \in {"slr_parse", "ll1_parse", "parsed"} =>
        /\ idx < Len(tokens)
        /\ verdict = "true" => idx = Len(tokens) - 1

====
